---- MODULE Spec2Model ----
(***************************************************************************)
(* A model of the GitLab analyser backend: the operation store             *)
(* (operation_store.py), the rate-limited completion queue of an agent     *)
(* (agents/base_agent.py) and the request / background-task lifecycle of   *)
(* the HTTP endpoints (main.py), and the agents' own logic: the suggestion  *)
(* cache and the validation task (agents/validation_agent.py), language    *)
(* detection (agents/code_analysis_agent.py) and pipeline generation by    *)
(* completion (agents/pipeline_gen_agent.py).                              *)
(***************************************************************************)
EXTENDS Integers, Sequences, FiniteSets, TLC

VARIABLES
    \* ---- operation store (operation_store.py) ----
    file,        \* content of OPERATIONS_FILE
    lock,        \* per process, the holder of its _lock: 0 when free, else the thread
    proc,        \* per thread: the process it runs in
    th,          \* per thread: the store call it is running and its position
    log,         \* history: the store calls started by the threads
    \* ---- sequential use of the store ----
    seq_hist,    \* history: the last two store calls of a sequential client
    \* ---- the completion queue of one agent instance (agents/base_agent.py) ----
    openai_api_key,  \* whether OPENAI_API_KEY is set
    request_queue,   \* self.request_queue: the callers whose item is queued
    fut,             \* per caller: the future of its item
    qp,              \* the _process_queue tasks, by the caller whose call created it
    since_last,      \* ticks since self.last_request_time, capped at the interval
    since_issue,     \* ticks since the last outbound request was issued, -1 if none
    trace,           \* history: the puts, issues and resolutions, in order
    \* ---- requests and background tasks (main.py) ----
    env,         \* which configuration is present: GitLab url and token, Google project
    now,         \* datetime.now(), in fractions of a second
    req,         \* per request: its kind, the handler's position, operation_id, response
    task,        \* per request: the position of its background task
    executes,    \* history: the agent execute calls, and whether the response was out
    writes,      \* history: the set_operation calls of the tasks, in order
    poll,        \* the last poll of the status endpoint: the id asked and the response
    \* ---- the file loop of a code review (main.py, run_review) ----
    files,       \* the repository tree returned by repository_tree
    rv,          \* the locals of run_review and its position
    calls,       \* history: the completion calls of the review, in order
    \* ---- the suggestion cache of one ValidationAgent (agents/validation_agent.py) ----
    suggestion_cache,  \* self.suggestion_cache: cache key -> suggestions list
    sg,          \* the _get_suggestions call in progress and its position
    sg_hist,     \* history: the finished _get_suggestions calls, in order
    \* ---- the validation task (agents/validation_agent.py, execute) ----
    va,          \* one execute call: its context, position, collaborator calls, result
    \* ---- language detection (agents/code_analysis_agent.py) ----
    dl,          \* the repository (manifests, paths) and the detected language
    \* ---- pipeline generation by completion (agents/pipeline_gen_agent.py) ----
    gen          \* one execute call: the answer, the text, the parses and the result

lockVars == <<lock, proc, th, log, seq_hist>>
storeVars == <<file, lock, proc, th, log, seq_hist>>
queueVars == <<openai_api_key, request_queue, fut, qp, since_last, since_issue, trace>>
lifeVars == <<env, now, req, task, executes, writes, poll>>
reviewVars == <<files, rv, calls>>
agentVars == <<suggestion_cache, sg, sg_hist, va, dl, gen>>
vars == <<file, lock, proc, th, log, seq_hist,
          openai_api_key, request_queue, fut, qp, since_last, since_issue, trace,
          env, now, req, task, executes, writes, poll,
          files, rv, calls,
          suggestion_cache, sg, sg_hist, va, dl, gen>>

(***************************************************************************)
(* Bounds of the model.                                                    *)
(***************************************************************************)
NThreads == 2
MaxCalls == 2
NCallers == 2
NReqs == 2
MaxNow == 2
MaxTree == 6
MaxOther == 1
SubSeconds == 2
MaxErrors == 2
MaxSuggestCalls == 2
MaxFiles == 4
MaxText == 6
MaxYaml == 3

\* errors[:3] (agents/validation_agent.py line 32)
prompt_errors == 3

Threads == 1..NThreads
\* the processes: _lock is a module-level threading.Lock, one per process
Processes == 1..NThreads

(***************************************************************************)
(* Operation ids and payloads.  An id is "{kind}_{timestamp}" (main.py     *)
(* line 93), modelled as the pair <<kind, second>>.  A payload is the      *)
(* result dictionary of a task, reduced to its status and message.         *)
(***************************************************************************)
StoreIds == {<<"analyze", 0>>, <<"review", 0>>}
Payloads == {[status |-> "success", message |-> "m1"],
             [status |-> "error", message |-> "m2"]}
\* Python's None, the value of dict.get for an absent key
None == [status |-> "None", message |-> "None"]
\* the empty dict {}
EmptyDict == [k \in {} |-> None]

(***************************************************************************)
(* The backing file: missing, unparseable text (a truncated dump), or the  *)
(* JSON text of an object, kept as its set of "key": value members.        *)
(***************************************************************************)
Missing == [kind |-> "missing", text |-> {}]
Corrupt == [kind |-> "corrupt", text |-> {}]

\* json.dump(ops, f): the object's members, one per key
json_dump(ops) == [kind |-> "json", text |-> {<<k, ops[k]>> : k \in DOMAIN ops}]

\* json.load(f): the dict built from the members; raises on unparseable text
json_load(f) ==
    [k \in {m[1] : m \in f.text} |-> (CHOOSE m \in f.text : m[1] = k)[2]]

\* os.path.exists(OPERATIONS_FILE)
exists(f) == f.kind # "missing"

\* the body of _read_operations once the file is open: json.load, {} on any error
load_or_empty(f) == IF f.kind = "json" THEN json_load(f) ELSE EmptyDict

\* _read_operations(): {} for a missing file, else the loaded mapping
_read_operations(f) == IF ~exists(f) THEN EmptyDict ELSE load_or_empty(f)

\* _write_operations(ops): the file is truncated and rewritten with the dump
_write_operations(ops) == json_dump(ops)

\* a store that keeps an entry it already has (setdefault instead of assignment)
dict_set_keeps(ops, op_id, data) ==
    [k \in DOMAIN ops \cup {op_id} |-> IF k \in DOMAIN ops THEN ops[k] ELSE data]

\* ops[op_id] = data
dict_set(ops, op_id, data) ==
    [k \in DOMAIN ops \cup {op_id} |-> IF k = op_id THEN data ELSE ops[k]]

\* del ops[op_id]
dict_del(ops, op_id) == [k \in DOMAIN ops \ {op_id} |-> ops[k]]

\* a lookup with a default entry, ops.get(op_id, {...}), instead of None
dict_get_default(ops, op_id) ==
    IF op_id \in DOMAIN ops THEN ops[op_id] ELSE [status |-> "not_found", message |-> "None"]

\* ops.get(op_id)
dict_get(ops, op_id) == IF op_id \in DOMAIN ops THEN ops[op_id] ELSE None

\* get_operation(op_id), run without interruption on file content f
get_operation(f, op_id) == dict_get(_read_operations(f), op_id)

\* set_operation(op_id, data), run without interruption: the file afterwards
set_operation(f, op_id, data) ==
    _write_operations(dict_set(_read_operations(f), op_id, data))

\* delete_operation(op_id), run without interruption: the file afterwards
delete_operation(f, op_id) ==
    LET ops == _read_operations(f)
    IN  IF op_id \in DOMAIN ops THEN _write_operations(dict_del(ops, op_id)) ELSE f

\* the file contents the program can meet when it starts
Mappings == UNION {[D -> Payloads] : D \in SUBSET StoreIds}
FileStates == {Missing, Corrupt} \cup {json_dump(m) : m \in Mappings}

(***************************************************************************)
(* Store calls made by threads, of one process or of several processes     *)
(* that share the backing file.  Each call is the sequence                 *)
(* of steps of the source: the os.path.exists test, `with _lock, open`     *)
(* (acquire, then read or write, then release) and the local mutation.     *)
(***************************************************************************)
IdleThread == [pc |-> "idle", op |-> "none", id |-> <<"none", 0>>, data |-> None,
               ops |-> EmptyDict, ret |-> None, n |-> 0]

\* a thread calls set_operation, get_operation or delete_operation
Call(t) ==
    /\ th[t].pc = "idle"
    /\ th[t].n < MaxCalls
    /\ \E op \in {"set", "get", "delete"}, id \in StoreIds :
         \E data \in (IF op = "set" THEN Payloads ELSE {None}) :
            /\ th' = [th EXCEPT ![t] = [@ EXCEPT !.pc = "exists", !.op = op, !.id = id,
                                                 !.data = data, !.ops = EmptyDict,
                                                 !.ret = None, !.n = @ + 1]]
            /\ log' = log \cup {[t |-> t, n |-> th[t].n + 1, op |-> op, id |-> id,
                                 data |-> data]}
    /\ UNCHANGED <<file, lock, seq_hist, proc, queueVars, lifeVars, reviewVars, agentVars>>

\* _read_operations line 9: a missing file is the empty mapping, no lock taken
Exists(t) ==
    /\ th[t].pc = "exists"
    /\ th' = [th EXCEPT ![t] = IF exists(file)
                               THEN [@ EXCEPT !.pc = "acquire_read"]
                               ELSE [@ EXCEPT !.pc = "loaded", !.ops = EmptyDict]]
    /\ UNCHANGED <<file, lock, log, seq_hist, proc, queueVars, lifeVars, reviewVars, agentVars>>

\* _read_operations line 11: `with _lock` acquires the lock
AcquireRead(t) ==
    /\ th[t].pc = "acquire_read"
    /\ lock[proc[t]] = 0
    /\ lock' = [lock EXCEPT ![proc[t]] = t]
    /\ th' = [th EXCEPT ![t] = [@ EXCEPT !.pc = "load"]]
    /\ UNCHANGED <<file, log, seq_hist, proc, queueVars, lifeVars, reviewVars, agentVars>>

\* _read_operations lines 11-15: open, json.load, leave the with block
Load(t) ==
    /\ th[t].pc = "load"
    /\ lock[proc[t]] = t
    /\ lock' = [lock EXCEPT ![proc[t]] = 0]
    /\ th' = [th EXCEPT ![t] = [@ EXCEPT !.pc = "loaded", !.ops = load_or_empty(file)]]
    /\ UNCHANGED <<file, log, seq_hist, proc, queueVars, lifeVars, reviewVars, agentVars>>

\* what the caller does with the mapping it read: get returns, set and delete mutate
Mutate(t) ==
    /\ th[t].pc = "loaded"
    /\ th' = [th EXCEPT ![t] =
                CASE th[t].op = "get" ->
                       [@ EXCEPT !.pc = "idle", !.ret = dict_get(th[t].ops, th[t].id)]
                  [] th[t].op = "set" ->
                       [@ EXCEPT !.pc = "acquire_write",
                                 !.ops = dict_set(th[t].ops, th[t].id, th[t].data)]
                  [] OTHER ->
                       IF th[t].id \in DOMAIN th[t].ops
                       THEN [@ EXCEPT !.pc = "acquire_write",
                                      !.ops = dict_del(th[t].ops, th[t].id)]
                       ELSE [@ EXCEPT !.pc = "idle"]]
    /\ UNCHANGED <<file, lock, log, seq_hist, proc, queueVars, lifeVars, reviewVars, agentVars>>

\* _write_operations line 18: `with _lock, open(.., "w")` acquires the lock and
\* opens the file, which truncates it
AcquireWrite(t) ==
    /\ th[t].pc = "acquire_write"
    /\ lock[proc[t]] = 0
    /\ lock' = [lock EXCEPT ![proc[t]] = t]
    /\ file' = Corrupt
    /\ th' = [th EXCEPT ![t] = [@ EXCEPT !.pc = "dump"]]
    /\ UNCHANGED <<log, seq_hist, proc, queueVars, lifeVars, reviewVars, agentVars>>

\* _write_operations lines 18-19: open for writing, json.dump, leave the with block
Dump(t) ==
    /\ th[t].pc = "dump"
    /\ lock[proc[t]] = t
    /\ file' = _write_operations(th[t].ops)
    /\ lock' = [lock EXCEPT ![proc[t]] = 0]
    /\ th' = [th EXCEPT ![t] = [@ EXCEPT !.pc = "idle"]]
    /\ UNCHANGED <<log, seq_hist, proc, queueVars, lifeVars, reviewVars, agentVars>>

(***************************************************************************)
(* A sequential client of the store: whole calls, one after the other.     *)
(***************************************************************************)
\* the history keeps the last two calls
Remember(call) ==
    IF Len(seq_hist) < 2 THEN Append(seq_hist, call) ELSE <<seq_hist[2], call>>

SeqSet(op_id, data) ==
    /\ file' = set_operation(file, op_id, data)
    /\ seq_hist' = Remember([op |-> "set", id |-> op_id, data |-> data, ret |-> None,
                             before |-> file.kind])
    /\ UNCHANGED <<lock, th, log, proc, queueVars, lifeVars, reviewVars, agentVars>>

SeqGet(op_id) ==
    /\ seq_hist' = Remember([op |-> "get", id |-> op_id, data |-> None,
                             ret |-> get_operation(file, op_id), before |-> file.kind])
    /\ UNCHANGED <<file, lock, th, log, proc, queueVars, lifeVars, reviewVars, agentVars>>

SeqDelete(op_id) ==
    /\ file' = delete_operation(file, op_id)
    /\ seq_hist' = Remember([op |-> "delete", id |-> op_id, data |-> None, ret |-> None,
                             before |-> file.kind])
    /\ UNCHANGED <<lock, th, log, proc, queueVars, lifeVars, reviewVars, agentVars>>

SeqNext ==
    \E op_id \in StoreIds :
        \/ \E data \in Payloads : SeqSet(op_id, data)
        \/ SeqGet(op_id)
        \/ SeqDelete(op_id)

(***************************************************************************)
(* The rate-limited completion queue of one agent instance                 *)
(* (BaseAgent._call_openai, _process_queue, _make_openai_request).  Time   *)
(* is counted in ticks of 0.1 s, the length of the consumer's idle sleep.  *)
(***************************************************************************)
\* self.min_request_interval = 1.0, in ticks
min_request_interval == 10
\* asyncio.sleep(0.1) at the end of each turn of the consumer loop, in ticks
loop_sleep == 1

Callers == 1..NCallers

NoFuture == [st |-> "none", val |-> "none"]
NoTask == [pc |-> "none", item |-> 0, sleep |-> 0]

\* BaseAgent.__init__: an empty queue, last_request_time = now, no consumer task
QueueIdle ==
    /\ request_queue = <<>>
    /\ fut = [c \in Callers |-> NoFuture]
    /\ qp = [c \in Callers |-> NoTask]
    /\ since_last = 0
    /\ since_issue = -1
    /\ trace = <<>>

\* a _call_openai that never starts the consumer task
needs_processor_never == FALSE

\* a _call_openai that starts a consumer task on every call
needs_processor_always == TRUE

\* not hasattr(self, '_queue_processor')
needs_processor == \A k \in Callers : qp[k].pc = "none"

\* _call_openai up to `await future`: start the consumer on the first call, put the
\* item on the queue (an unbounded queue: put does not wait)
CallOpenai(c) ==
    /\ fut[c].st = "none"
    /\ qp' = IF needs_processor
             THEN [qp EXCEPT ![c] = [pc |-> "loop", item |-> 0, sleep |-> 0]]
             ELSE qp
    /\ fut' = [fut EXCEPT ![c] = [st |-> "pending", val |-> "none"]]
    /\ request_queue' = Append(request_queue, c)
    /\ trace' = Append(trace, <<"put", c>>)
    /\ UNCHANGED <<openai_api_key, since_last, since_issue, storeVars, lifeVars, reviewVars, agentVars>>

\* a consumer without the except clause: the exception ends the task
after_exception_dies(consumer) == [pc |-> "dead", item |-> 0, sleep |-> 0]

\* what the except clause of _process_queue leaves of the consumer after the
\* request raised: the loop goes on to its sleep
after_exception(consumer) == [pc |-> "nap", item |-> 0, sleep |-> loop_sleep]

\* _make_openai_request is entered for `item` by consumer k: without a key it raises
\* at once and the except clause rejects the future; with a key the request goes out
Issue(k, item) ==
    IF ~openai_api_key
    THEN /\ fut' = [fut EXCEPT ![item] = [st |-> "exception", val |-> "ValueError"]]
         /\ qp' = [qp EXCEPT ![k] = after_exception(qp[k])]
         /\ trace' = Append(trace, <<"done", item>>)
         /\ UNCHANGED <<since_last, since_issue>>
    ELSE /\ qp' = [qp EXCEPT ![k] = [pc |-> "request", item |-> item, sleep |-> 0]]
         /\ since_issue' = 0
         /\ trace' = Append(trace, <<"issue", item>>)
         /\ UNCHANGED <<fut, since_last>>

\* the seconds to sleep before the request: min_request_interval - time_since_last
\* when time_since_last < min_request_interval, else none
rate_sleep(time_since_last) ==
    IF time_since_last < min_request_interval
    THEN min_request_interval - time_since_last
    ELSE 0

\* a queue that hands out the newest item first (asyncio.LifoQueue)
queue_get_lifo(q) == [item |-> q[Len(q)], rest |-> SubSeq(q, 1, Len(q) - 1)]

\* self.request_queue.get() on a queue that is not empty: asyncio.Queue hands out
\* the oldest item
queue_get(q) == [item |-> Head(q), rest |-> Tail(q)]

\* _process_queue lines 89-98 and 105: one turn of the loop up to its first await
LoopTop(k) ==
    /\ qp[k].pc = "loop"
    /\ IF request_queue = <<>>
       THEN /\ qp' = [qp EXCEPT ![k] = [pc |-> "nap", item |-> 0, sleep |-> loop_sleep]]
            /\ UNCHANGED <<request_queue, fut, since_last, since_issue, trace>>
       ELSE /\ request_queue' = queue_get(request_queue).rest
            /\ IF rate_sleep(since_last) > 0
               THEN /\ qp' = [qp EXCEPT ![k] = [pc |-> "rate_sleep",
                                                item |-> queue_get(request_queue).item,
                                                sleep |-> rate_sleep(since_last)]]
                    /\ UNCHANGED <<fut, since_last, since_issue, trace>>
               ELSE Issue(k, queue_get(request_queue).item)
    /\ UNCHANGED <<openai_api_key, storeVars, lifeVars, reviewVars, agentVars>>

\* _process_queue line 96 returns: the rate-limit sleep is over
WakeRate(k) ==
    /\ qp[k].pc = "rate_sleep"
    /\ qp[k].sleep = 0
    /\ Issue(k, qp[k].item)
    /\ UNCHANGED <<openai_api_key, request_queue, storeVars, lifeVars, reviewVars, agentVars>>

\* _process_queue lines 98-100: the request returned; the future gets the result
\* and last_request_time is set
RequestReturns(k) ==
    /\ qp[k].pc = "request"
    /\ fut' = [fut EXCEPT ![qp[k].item] = [st |-> "result", val |-> "text"]]
    /\ since_last' = 0
    /\ qp' = [qp EXCEPT ![k] = [pc |-> "nap", item |-> 0, sleep |-> loop_sleep]]
    /\ trace' = Append(trace, <<"done", qp[k].item>>)
    /\ UNCHANGED <<openai_api_key, request_queue, since_issue, storeVars, lifeVars, reviewVars, agentVars>>

\* _process_queue lines 101-104: the request raised; the future gets the exception
RequestRaises(k) ==
    /\ qp[k].pc = "request"
    /\ fut' = [fut EXCEPT ![qp[k].item] = [st |-> "exception", val |-> "APIError"]]
    /\ qp' = [qp EXCEPT ![k] = after_exception(qp[k])]
    /\ trace' = Append(trace, <<"done", qp[k].item>>)
    /\ UNCHANGED <<openai_api_key, request_queue, since_last, since_issue, storeVars, lifeVars, reviewVars, agentVars>>

\* _process_queue line 105 returns: back to the top of the loop
WakeNap(k) ==
    /\ qp[k].pc = "nap"
    /\ qp[k].sleep = 0
    /\ qp' = [qp EXCEPT ![k] = [pc |-> "loop", item |-> 0, sleep |-> 0]]
    /\ UNCHANGED <<openai_api_key, request_queue, fut, since_last, since_issue, trace,
                   storeVars, lifeVars, reviewVars, agentVars>>

\* a tick of 0.1 s passes
Tick ==
    /\ since_last' = IF since_last < min_request_interval THEN since_last + 1
                     ELSE since_last
    /\ since_issue' = IF since_issue >= 0 /\ since_issue < min_request_interval
                      THEN since_issue + 1 ELSE since_issue
    /\ qp' = [k \in Callers |->
                IF qp[k].sleep > 0 THEN [qp[k] EXCEPT !.sleep = @ - 1] ELSE qp[k]]
    /\ UNCHANGED <<openai_api_key, request_queue, fut, trace, storeVars, lifeVars, reviewVars, agentVars>>

(***************************************************************************)
(* The submission endpoints and their background tasks (main.py).          *)
(***************************************************************************)
Reqs == 1..NReqs
Kinds == {"analyze", "generate", "validate", "deploy", "review"}

\* strftime('%Y%m%d_%H%M%S'): the time cut to the second
strftime(t) == t \div SubSeconds

\* f"{kind}_{datetime.now().strftime(...)}"
mint_id(kind, t) == <<kind, strftime(t)>>

\* the agent a handler constructs before it schedules its task; the review handler
\* constructs none (its task does)
handler_agent(kind) ==
    CASE kind \in {"analyze", "generate"} -> "CodeAnalysisAgent"
      [] kind = "validate" -> "ValidationAgent"
      [] kind = "deploy" -> "DeploymentAgent"
      [] OTHER -> "none"

\* the agent whose execute the background task awaits
task_agent(kind) ==
    CASE kind \in {"analyze", "review"} -> "CodeAnalysisAgent"
      [] kind = "generate" -> "PipelineAgent"
      [] kind = "validate" -> "ValidationAgent"
      [] OTHER -> "DeploymentAgent"

\* a DeploymentAgent that does not test GOOGLE_PROJECT_ID
constructs_without_project_id(agent, e) ==
    IF agent \in {"CodeAnalysisAgent", "ValidationAgent", "DeploymentAgent"}
    THEN e.gitlab ELSE TRUE

\* whether the agent's __init__ returns: the GitLab agents raise ValueError without
\* GITLAB_URL and GITLAB_TOKEN, the deployment agent also without GOOGLE_PROJECT_ID
constructs(agent, e) ==
    CASE agent \in {"CodeAnalysisAgent", "ValidationAgent"} -> e.gitlab
      [] agent = "DeploymentAgent" -> e.gitlab /\ e.google
      [] OTHER -> TRUE

\* an analyze handler that awaits its analysis too
analyze_awaits_too(kind) == kind \in {"generate", "analyze"}

\* the handlers that await the repository analysis themselves before scheduling
handler_awaits_analysis(kind) == kind = "generate"

\* the statuses an agent's execute can return
execute_statuses(agent) ==
    IF agent = "PipelineAgent" THEN {"success"} ELSE {"success", "error"}

\* the 404 response of the status endpoint
NotFound == [status |-> "404", message |-> "Operation not found"]
\* no poll made yet
NoPoll == [id |-> <<"none", 0>>, resp |-> NotFound]

NoReq == [kind |-> "none", pc |-> "new", opid |-> <<"none", 0>>,
          ack |-> [status |-> "none", id |-> <<"none", 0>>]]

LifeIdle ==
    /\ now = 0
    /\ req = [r \in Reqs |-> NoReq]
    /\ task = [r \in Reqs |-> "none"]
    /\ executes = {}
    /\ writes = <<>>
    /\ poll = NoPoll

\* a handler that awaits its task instead of handing it to background_tasks
awaited_in_handler(r) == req[r].pc \in {"scheduled", "acked"}

\* background_tasks.add_task(run_...): the task runs once the response is sent
response_sent(r) == req[r].pc = "acked"

\* a handler up to add_task (or, for generate-pipeline, up to the awaited analysis):
\* mint the operation id, construct the agent; any exception becomes HTTP 500
HandlerStart(r, kind) ==
    /\ req[r].pc = "new"
    /\ IF ~constructs(handler_agent(kind), env)
       THEN /\ req' = [req EXCEPT ![r] = [@ EXCEPT !.kind = kind, !.pc = "rejected",
                                                   !.opid = mint_id(kind, now)]]
            /\ UNCHANGED <<task, executes>>
       ELSE IF handler_awaits_analysis(kind)
       THEN /\ req' = [req EXCEPT ![r] = [@ EXCEPT !.kind = kind, !.pc = "analysing",
                                                   !.opid = mint_id(kind, now)]]
            /\ executes' = executes \cup
                   {[r |-> r, agent |-> "CodeAnalysisAgent", sent |-> response_sent(r)]}
            /\ UNCHANGED task
       ELSE /\ req' = [req EXCEPT ![r] = [@ EXCEPT !.kind = kind, !.pc = "scheduled",
                                                   !.opid = mint_id(kind, now)]]
            /\ task' = [task EXCEPT ![r] = "pending"]
            /\ UNCHANGED executes
    /\ UNCHANGED <<env, now, writes, poll, storeVars, queueVars, reviewVars, agentVars>>

\* a handler that awaited the analysis: an error result becomes HTTP 500, else the
\* task is scheduled (generate_pipeline lines 129-142)
HandlerAnalysed(r, status) ==
    /\ req[r].pc = "analysing"
    /\ IF status = "error"
       THEN /\ req' = [req EXCEPT ![r] = [@ EXCEPT !.pc = "rejected"]]
            /\ UNCHANGED task
       ELSE /\ req' = [req EXCEPT ![r] = [@ EXCEPT !.pc = "scheduled"]]
            /\ task' = [task EXCEPT ![r] = "pending"]
    /\ UNCHANGED <<env, now, executes, writes, poll, storeVars, queueVars, reviewVars, agentVars>>

\* the handler returns its acknowledgment and the response is sent
HandlerReturn(r) ==
    /\ req[r].pc = "scheduled"
    /\ req' = [req EXCEPT ![r] = [@ EXCEPT !.pc = "acked",
                     !.ack = [status |-> "processing", id |-> req[r].opid]]]
    /\ UNCHANGED <<env, now, task, executes, writes, poll, storeVars, queueVars, reviewVars, agentVars>>

\* the background task starts: it awaits the execute of its agent; run_review first
\* constructs its CodeAnalysisAgent, outside any try
TaskStart(r) ==
    /\ task[r] = "pending"
    /\ response_sent(r)
    /\ IF req[r].kind = "review" /\ ~constructs("CodeAnalysisAgent", env)
       THEN /\ task' = [task EXCEPT ![r] = "raised"]
            /\ UNCHANGED executes
       ELSE /\ task' = [task EXCEPT ![r] = "execute"]
            /\ executes' = executes \cup
                   {[r |-> r, agent |-> task_agent(req[r].kind), sent |-> response_sent(r)]}
    /\ UNCHANGED <<env, now, req, writes, poll, storeVars, queueVars, reviewVars, agentVars>>

\* the record run_review stores when the analysis failed (lines 233-240)
review_error == [status |-> "error", message |-> "review"]
\* the record run_review stores at its end (lines 354-362)
review_completed == [status |-> "completed", message |-> "review"]
\* a task that stores its result under the acknowledgment's status
result_keeps_ack_status(kind, status) == [status |-> "processing", message |-> kind]

\* the result of an agent's execute: _format_success or _format_error
agent_result(kind, status) == [status |-> status, message |-> kind]

\* set_operation(operation_id, data) called by the task of request r
StoreResult(r, data) ==
    /\ file' = set_operation(file, req[r].opid, data)
    /\ writes' = Append(writes, [r |-> r, id |-> req[r].opid, data |-> data])

\* execute returns its result (it turns every exception into an error result); the
\* task stores it, except run_review after a successful analysis, which goes on
ExecuteReturns(r, status) ==
    /\ task[r] = "execute"
    /\ status \in execute_statuses(task_agent(req[r].kind))
    /\ IF req[r].kind # "review"
       THEN /\ StoreResult(r, agent_result(req[r].kind, status))
            /\ task' = [task EXCEPT ![r] = "done"]
       ELSE IF status = "error"
       THEN /\ StoreResult(r, review_error)
            /\ task' = [task EXCEPT ![r] = "done"]
       ELSE /\ task' = [task EXCEPT ![r] = "fetch"]
            /\ UNCHANGED <<file, writes>>
    /\ UNCHANGED <<env, now, req, executes, poll, lockVars, queueVars, reviewVars, agentVars>>

\* run_review lines 244-248: the project and its tree are fetched outside any try;
\* a GitLab error here leaves the task
ReviewFetch(r, ok) ==
    /\ task[r] = "fetch"
    /\ task' = [task EXCEPT ![r] = IF ok THEN "files" ELSE "raised"]
    /\ UNCHANGED <<env, now, req, executes, writes, poll, storeVars, queueVars, reviewVars, agentVars>>

\* run_review lines 255-362: the files are reviewed (every exception is caught) and
\* the record is stored
ReviewDone(r) ==
    /\ task[r] = "files"
    /\ StoreResult(r, review_completed)
    /\ task' = [task EXCEPT ![r] = "done"]
    /\ UNCHANGED <<env, now, req, executes, poll, lockVars, queueVars, reviewVars, agentVars>>

\* `not op` in get_operation_status: None (and an empty result) count as absent
falsy(op) == op = None

\* the ids a client polls: those minted for the requests and one never minted
PolledIds == {req[r].opid : r \in Reqs} \cup {<<"deploy", MaxNow + 1>>}

\* get_operation_status(operation_id): the stored record, or 404 when there is none
Poll(operation_id) ==
    /\ poll' = [id |-> operation_id,
                resp |-> IF falsy(get_operation(file, operation_id))
                         THEN NotFound
                         ELSE get_operation(file, operation_id)]
    /\ UNCHANGED <<env, now, req, task, executes, writes, storeVars, queueVars, reviewVars, agentVars>>

\* the clock advances
ClockTick ==
    /\ now < MaxNow
    /\ now' = now + 1
    /\ UNCHANGED <<env, req, task, executes, writes, poll, storeVars, queueVars, reviewVars, agentVars>>

(***************************************************************************)
(* The file loop of a code review (main.py, run_review lines 248-362),     *)
(* from the repository tree to the stored record.  A path is the pair of   *)
(* its leading characters, up to where the excluded prefixes are decided,  *)
(* and the position of its entry in the tree, which makes paths distinct.  *)
(***************************************************************************)
\* `code_files[:5]`: the number of files a review sends
review_limit == 5

\* the leading characters a path can have
PathHeads == {"src", ".git", "node_modules", "__pycache__"}
\* the prefixes run_review excludes
excluded_prefixes == {".git", "node_modules", "__pycache__"}

\* the trees repository_tree can return: at most MaxTree entries, of which at most
\* MaxOther are not blobs outside the excluded prefixes
EntryShapes == {[type |-> "blob", head |-> h] : h \in PathHeads}
                   \cup {[type |-> "tree", head |-> "src"]}
entry_at(shape, i) == [type |-> shape.type, path |-> <<shape.head, i>>]
TreesOfLength(n) ==
    {[i \in 1..n |-> entry_at(x[i], i)] :
        x \in {y \in [1..n -> EntryShapes] :
                 Cardinality({i \in 1..n : y[i] # [type |-> "blob", head |-> "src"]})
                     <= MaxOther}}
Trees == UNION {TreesOfLength(n) : n \in 0..MaxTree}

\* path.startswith(prefixes), decided on the leading characters
startswith(path, prefixes) == path[1] \in prefixes

\* the condition of the list comprehension at line 249
is_code_file(f) == f.type = "blob" /\ ~startswith(f.path, excluded_prefixes)

\* code_files = [f for f in files if ...]
code_files(tree) == SelectSeq(tree, is_code_file)

\* a loop over all the code files
slice_all(cf) == cf

\* code_files[:5]
slice(cf) == SubSeq(cf, 1, IF Len(cf) < review_limit THEN Len(cf) ELSE review_limit)

\* the findings appended for a file that could not be reviewed
error_finding(severity, path) == [type |-> "error", severity |-> severity, location |-> path]
\* a finding taken from the completion's JSON answer
review_finding(path) == [type |-> "review", severity |-> "none", location |-> path]
\* the single finding of the mock review
mock_finding == [type |-> "mock_review", severity |-> "info", location |-> <<"N/A", 0>>]
\* the recommendations of the mock review
mock_recommendations == <<"Add more tests to your codebase.",
                          "Follow best practices for code structure.",
                          "Ensure proper error handling.">>

\* the JSON answers a completion can give for a file: nothing to report with
\* score 10, or one finding and one recommendation with score 6
Reviews(path) ==
    {[findings |-> <<>>, recommendations |-> <<>>, score |-> 10],
     [findings |-> <<review_finding(path)>>, recommendations |-> <<"r">>, score |-> 6]}

\* how the turn of one file can go
Outcomes(path) ==
    {[kind |-> "fetch_raises"], [kind |-> "openai_raises"], [kind |-> "bad_json"],
     [kind |-> "bad_score"]}
        \cup {[kind |-> "ok", review |-> x] : x \in Reviews(path)}

\* the locals of run_review at line 260, and how the last turn of the loop went
InitialLocals ==
    [pc |-> "list", code_files |-> <<>>, i |-> 0, findings |-> <<>>,
     recommendations |-> <<>>, total_score |-> 0, files_reviewed |-> 0,
     openai_failed |-> FALSE, openai_error_message |-> "None",
     last |-> "none"]

ReviewIdle ==
    /\ files = <<>>
    /\ rv = InitialLocals
    /\ calls = <<>>

\* a loop that goes on to the next file after a failed completion call
breaks_never(kind) == FALSE

\* the turns that leave the loop: the except clause at lines 307-312 catches what
\* the completion call raises, and also what lines 289-292 raise on a parsed
\* answer of the wrong shape (only JSONDecodeError is caught inside)
breaks(kind) == kind \in {"openai_raises", "bad_score"}

\* every local failure reported as "medium"
local_failure_always_medium(kind) == "medium"

\* the severity of the finding appended when one file fails: "low" for an answer
\* that is not JSON (line 300), "medium" for what line 313 catches (line 316)
local_failure_severity(kind) == IF kind = "bad_json" THEN "low" ELSE "medium"

\* a fallback taken only when no file was reviewed
fallback_without_reviews(l) == l.files_reviewed = 0

\* the condition of the mock fallback at line 327
uses_fallback(l) == l.openai_failed \/ l.files_reviewed = 0

RECURSIVE gcd(_, _)
gcd(a, b) == IF b = 0 THEN a ELSE gcd(b, a % b)

\* total_score / files_reviewed, a float: kept as the reduced fraction
true_div(a, b) == <<a \div gcd(a, b), b \div gcd(a, b)>>

\* the id run_review stores under
review_id == <<"review", 0>>

\* lines 248-260: the tree is filtered and the accumulators are set up
ReviewList ==
    /\ rv.pc = "list"
    /\ rv' = [rv EXCEPT !.pc = "loop", !.code_files = code_files(files), !.i = 1]
    /\ UNCHANGED <<files, calls, storeVars, queueVars, lifeVars, agentVars>>

\* lines 263-319: the turn of one file of code_files[:5]
ReviewFile ==
    /\ rv.pc = "loop"
    /\ rv.i <= Len(slice(rv.code_files))
    /\ LET path == slice(rv.code_files)[rv.i].path
       IN  \E outcome \in Outcomes(path) :
             LET kind == outcome.kind
                 answer == IF kind = "ok" THEN outcome.review
                           ELSE [findings |-> <<review_finding(path)>>,
                                 recommendations |-> <<"r">>, score |-> 0]
                 after == IF breaks(kind) THEN [rv EXCEPT !.pc = "after_loop", !.last = kind]
                          ELSE [rv EXCEPT !.i = @ + 1, !.last = kind]
             IN  /\ calls' = IF kind = "fetch_raises" THEN calls
                             ELSE Append(calls, <<"file", path>>)
                 /\ rv' =
                      CASE kind \in {"fetch_raises", "bad_json"} ->
                             [after EXCEPT !.findings =
                                 Append(@, error_finding(local_failure_severity(kind), path))]
                        [] kind = "openai_raises" ->
                             [after EXCEPT !.openai_failed = TRUE,
                                           !.openai_error_message = "APIError"]
                        [] kind = "bad_score" ->
                             [after EXCEPT !.findings = @ \o answer.findings,
                                           !.recommendations = @ \o answer.recommendations,
                                           !.openai_failed = TRUE,
                                           !.openai_error_message = "TypeError"]
                        [] OTHER ->
                             [after EXCEPT !.findings = @ \o answer.findings,
                                           !.recommendations = @ \o answer.recommendations,
                                           !.total_score = @ + answer.score,
                                           !.files_reviewed = @ + 1]
    /\ UNCHANGED <<files, storeVars, queueVars, lifeVars, agentVars>>

\* lines 326-362: the mock fallback or the average and the summary call, then
\* the record is stored
ReviewStore(summary_outcome) ==
    /\ \/ rv.pc = "after_loop"
       \/ rv.pc = "loop" /\ rv.i > Len(slice(rv.code_files))
    /\ LET asks_summary == ~uses_fallback(rv)
                               /\ (rv.findings # <<>> \/ rv.recommendations # <<>>)
           out_findings == IF uses_fallback(rv) THEN <<mock_finding>> ELSE rv.findings
           out_recommendations ==
               IF uses_fallback(rv) THEN mock_recommendations ELSE rv.recommendations
           score == IF uses_fallback(rv) THEN <<50, 1>>
                    ELSE true_div(rv.total_score, rv.files_reviewed)
           summary ==
               CASE uses_fallback(rv) ->
                      <<"OpenAI review failed. Returned mock review.",
                        IF rv.openai_error_message = "None" THEN "Unknown error"
                        ELSE rv.openai_error_message>>
                 [] asks_summary /\ summary_outcome = "returns" -> <<"summary", "text">>
                 [] asks_summary -> <<"OpenAI summary failed", "APIError">>
                 [] OTHER -> <<"No significant issues found in the reviewed files.", "">>
       IN  /\ asks_summary \/ summary_outcome = "returns"
           /\ calls' = IF asks_summary THEN Append(calls, <<"summary", <<"all", 0>>>>)
                       ELSE calls
           /\ rv' = [rv EXCEPT !.pc = "done", !.findings = out_findings,
                               !.recommendations = out_recommendations]
           /\ file' = set_operation(file, review_id,
                        [review_id |-> review_id,
                         status |-> "completed",
                         message |-> IF ~rv.openai_failed THEN "Code review completed"
                                     ELSE "Code review completed with mock fallback due to OpenAI error.",
                         findings |-> out_findings,
                         recommendations |-> out_recommendations,
                         score |-> score,
                         summary |-> summary])
    /\ UNCHANGED <<files, lockVars, queueVars, lifeVars, agentVars>>

(***************************************************************************)
(* The suggestion cache of one ValidationAgent instance (_get_suggestions, *)
(* agents/validation_agent.py lines 24-49).  An error string is one of a   *)
(* few texts, ordered as Python orders strings.  An answer of the          *)
(* completion service is a text, which ast.literal_eval may or may not     *)
(* read as a Python list.                                                  *)
(***************************************************************************)
ErrorStrings == {"jobs config missing", "unknown stage"}

\* the order of str: "jobs config missing" < "unknown stage"
rank(e) == IF e = "jobs config missing" THEN 1 ELSE 2

ErrorLists == UNION {[1..n -> ErrorStrings] : n \in 0..MaxErrors}

\* sorted(errors): every element is kept, equal strings stay next to each other
insert(e, s) ==
    LET k == Cardinality({i \in 1..Len(s) : rank(s[i]) <= rank(e)})
    IN  SubSeq(s, 1, k) \o <<e>> \o SubSeq(s, k + 1, Len(s))

RECURSIVE sorted(_)
sorted(s) ==
    IF s = <<>> THEN <<>> ELSE insert(s[Len(s)], sorted(SubSeq(s, 1, Len(s) - 1)))

\* cache_key = tuple(sorted(errors)), line 27
cache_key(errors) == sorted(errors)

\* errors[:3], the part of the list that goes into the prompt (line 32)
error_summary(errors) ==
    SubSeq(errors, 1, IF Len(errors) < prompt_errors THEN Len(errors) ELSE prompt_errors)

\* the texts the completion service may answer
Answers == {"['use stages']", "['use stages', 'add a job']", "'use stages'", "use stages"}

\* ast.literal_eval of an answer: the value of a Python literal, or a raise
literal_eval(a) ==
    CASE a = "['use stages']" -> [raises |-> FALSE, is_list |-> TRUE, value |-> <<"use stages">>]
      [] a = "['use stages', 'add a job']" ->
             [raises |-> FALSE, is_list |-> TRUE, value |-> <<"use stages", "add a job">>]
      [] a = "'use stages'" -> [raises |-> FALSE, is_list |-> FALSE, value |-> <<>>]
      [] OTHER -> [raises |-> TRUE, is_list |-> FALSE, value |-> <<>>]

\* lines 38-43: the list the answer denotes, else the answer itself as the one item
suggestions_list(a) ==
    IF ~literal_eval(a).raises /\ literal_eval(a).is_list
    THEN literal_eval(a).value
    ELSE <<a>>

\* the dict after self.suggestion_cache[key] = value
cache_set(cache, key, value) ==
    [k \in DOMAIN cache \cup {key} |-> IF k = key THEN value ELSE cache[k]]

NoSuggest == [pc |-> "idle", errors |-> <<>>]

SuggestIdle ==
    /\ suggestion_cache = <<>>
    /\ sg = NoSuggest
    /\ sg_hist = <<>>

\* _get_suggestions up to its await: a hit returns the cached list (lines 27-29), a
\* miss builds the prompt and submits it (lines 32-36)
SuggestStart(errors) ==
    /\ sg.pc = "idle"
    /\ Len(sg_hist) < MaxSuggestCalls
    /\ IF cache_key(errors) \in DOMAIN suggestion_cache
       THEN /\ sg_hist' = Append(sg_hist,
                   [errors |-> errors, asked |-> FALSE, prompt |-> <<>>,
                    obtained |-> FALSE, ret |-> suggestion_cache[cache_key(errors)]])
            /\ UNCHANGED sg
       ELSE /\ sg' = [pc |-> "await", errors |-> errors]
            /\ UNCHANGED sg_hist
    /\ UNCHANGED <<suggestion_cache, va, dl, gen, storeVars, queueVars, lifeVars, reviewVars>>

\* the completion call returns: the answer is read, cached and returned (lines 38-47)
SuggestAnswer(a) ==
    /\ sg.pc = "await"
    /\ suggestion_cache' =
           cache_set(suggestion_cache, cache_key(sg.errors), suggestions_list(a))
    /\ sg_hist' = Append(sg_hist,
           [errors |-> sg.errors, asked |-> TRUE, prompt |-> error_summary(sg.errors),
            obtained |-> TRUE, ret |-> suggestions_list(a)])
    /\ sg' = NoSuggest
    /\ UNCHANGED <<va, dl, gen, storeVars, queueVars, lifeVars, reviewVars>>

\* the completion call raises: the error text is returned and nothing is cached
\* (lines 48-49)
SuggestRaises ==
    /\ sg.pc = "await"
    /\ sg_hist' = Append(sg_hist,
           [errors |-> sg.errors, asked |-> TRUE, prompt |-> error_summary(sg.errors),
            obtained |-> FALSE, ret |-> <<"Error getting suggestions">>])
    /\ sg' = NoSuggest
    /\ UNCHANGED <<suggestion_cache, va, dl, gen, storeVars, queueVars, lifeVars, reviewVars>>


(***************************************************************************)
(* Language detection (CodeAnalysisAgent._analyze_dependencies and         *)
(* _detect_language, agents/code_analysis_agent.py lines 119-143 and       *)
(* 174-202).  A repository is the set of the manifest files that can be    *)
(* fetched from its root and the list of the paths of its tree.  A path is *)
(* kept as what follows its last dot, or as the whole path when it has no  *)
(* dot, which is what file.split(".")[-1] gives.                           *)
(***************************************************************************)
\* dependency_files, in the order of the dict literal (lines 123-129)
dependency_files ==
    << [lang |-> "python", names |-> <<"requirements.txt", "setup.py", "Pipfile">>],
       [lang |-> "node", names |-> <<"package.json">>],
       [lang |-> "java", names |-> <<"pom.xml", "build.gradle">>],
       [lang |-> "ruby", names |-> <<"Gemfile">>],
       [lang |-> "php", names |-> <<"composer.json">>] >>

ManifestNames ==
    UNION {{dependency_files[l].names[n] : n \in 1..Len(dependency_files[l].names)} :
              l \in 1..Len(dependency_files)}

\* what follows the last dot of a path; "Dockerfile" is a path without a dot
LastParts == {"py", "js", "JS", "md", "Dockerfile"}
Dotless == {"Dockerfile"}

\* the paths of a tree are distinct, so a path without a dot occurs once
PathLists(n) ==
    {t \in [1..n -> LastParts] :
        \A i, j \in 1..n : t[i] \in Dotless /\ t[i] = t[j] => i = j}

Repositories ==
    [fetchable : SUBSET ManifestNames,
     files : UNION {PathLists(n) : n \in 0..MaxFiles}]

\* str.lower()
lower(s) ==
    CASE s = "JS" -> "js"
      [] s = "Dockerfile" -> "dockerfile"
      [] OTHER -> s

\* ext_to_lang (lines 188-196)
ext_to_lang ==
    [ext \in {"py", "js", "ts", "java", "rb", "php", "go"} |->
        CASE ext = "py" -> "python"
          [] ext = "js" -> "javascript"
          [] ext = "ts" -> "typescript"
          [] ext = "java" -> "java"
          [] ext = "rb" -> "ruby"
          [] ext = "php" -> "php"
          [] OTHER -> "go"]

\* _analyze_dependencies: the languages whose first fetchable manifest was stored,
\* in the order the keys were inserted (lines 131-141)
analyze_dependencies(fetchable) ==
    LET found(entry) == \E n \in 1..Len(entry.names) : entry.names[n] \in fetchable
        kept == SelectSeq(dependency_files, found)
    IN  [l \in 1..Len(kept) |-> kept[l].lang]

\* list(dependencies.keys())[-1]
last_key(dependencies) == dependencies[Len(dependencies)]

\* list(dependencies.keys())[0], line 178
first_key(dependencies) == dependencies[1]

\* lines 181-186: the extension of each path, and extensions[ext], its count
ext_of(path) == lower(path)
extension_count(paths, ext) == Cardinality({i \in 1..Len(paths) : ext_of(paths[i]) = ext})

\* max(extensions.items(), key=lambda x: x[1])[0]: the dict keeps the extensions in
\* the order of their first path, and max returns the first of the greatest counts
most_common(paths) ==
    LET greatest(i) ==
            \A j \in 1..Len(paths) :
                extension_count(paths, ext_of(paths[j])) <= extension_count(paths, ext_of(paths[i]))
        first == CHOOSE i \in 1..Len(paths) :
                     greatest(i) /\ \A j \in 1..(i - 1) : ~greatest(j)
    IN  ext_of(paths[first])

\* _detect_language (lines 174-202)
detect_language(paths, dependencies) ==
    IF dependencies # <<>>
    THEN first_key(dependencies)
    ELSE IF paths # <<>>
    THEN IF most_common(paths) \in DOMAIN ext_to_lang
         THEN ext_to_lang[most_common(paths)]
         ELSE "unknown"
    ELSE "unknown"

NoDetect ==
    [pc |-> "none", fetchable |-> {}, files |-> <<>>, dependencies |-> <<>>,
     language |-> "none"]

\* execute, line 62: dependencies = await self._analyze_dependencies(project, branch)
AnalyzeDependencies ==
    /\ dl.pc = "structure"
    /\ dl' = [dl EXCEPT !.pc = "dependencies",
                        !.dependencies = analyze_dependencies(dl.fetchable)]
    /\ UNCHANGED <<suggestion_cache, sg, sg_hist, va, gen,
                   storeVars, queueVars, lifeVars, reviewVars>>

\* execute, line 67, and _generate_analysis, line 147
DetectLanguage ==
    /\ dl.pc = "dependencies"
    /\ dl' = [dl EXCEPT !.pc = "analysis",
                        !.language = detect_language(dl.files, dl.dependencies)]
    /\ UNCHANGED <<suggestion_cache, sg, sg_hist, va, gen,
                   storeVars, queueVars, lifeVars, reviewVars>>

(***************************************************************************)
(* Pipeline generation by completion (PipelineGenAgent.execute,            *)
(* _generate_pipeline, _clean_yaml_response and _fix_common_yaml_issues,   *)
(* agents/pipeline_gen_agent.py).  A text is a sequence of pieces: the     *)
(* three backticks of a code fence, the word yaml, a newline, a space, a   *)
(* piece of well-formed YAML and a piece no YAML document can contain.     *)
(* "```yaml" is the fence followed by the word, so s[7:] drops two pieces  *)
(* and s[3:] one.                                                          *)
(***************************************************************************)
\* the three backticks, named since a backtick cannot stand in a string here
fence == "<fence>"
yaml_word == "yaml"
newline == "\\n"
space == " "
good_yaml == "build: {stage: build}"
bad_yaml == "build: {"

Pieces == {fence, yaml_word, newline, space, good_yaml, bad_yaml}
Texts == UNION {[1..n -> Pieces] : n \in 0..MaxText}

\* str.strip(): the whitespace at both ends goes
isspace(p) == p \in {newline, space}

RECURSIVE lstrip(_)
lstrip(s) == IF s # <<>> /\ isspace(Head(s)) THEN lstrip(Tail(s)) ELSE s

RECURSIVE rstrip(_)
rstrip(s) ==
    IF s # <<>> /\ isspace(s[Len(s)]) THEN rstrip(SubSeq(s, 1, Len(s) - 1)) ELSE s

strip(s) == rstrip(lstrip(s))

\* str.startswith and str.endswith of a text of pieces
text_startswith(s, prefix) ==
    Len(s) >= Len(prefix) /\ SubSeq(s, 1, Len(prefix)) = prefix
text_endswith(s, suffix) ==
    Len(s) >= Len(suffix) /\ SubSeq(s, Len(s) - Len(suffix) + 1, Len(s)) = suffix

\* lines 109-112: the two tests on the start, one after the other
remove_prefix(s) ==
    LET s1 == IF text_startswith(s, <<fence, yaml_word>>) THEN SubSeq(s, 3, Len(s)) ELSE s
    IN  IF text_startswith(s1, <<fence>>) THEN SubSeq(s1, 2, Len(s1)) ELSE s1

\* a clean-up that leaves the closing fence in
keep_suffix(s) == s

\* lines 113-114
remove_suffix(s) ==
    IF text_endswith(s, <<fence>>) THEN SubSeq(s, 1, Len(s) - 1) ELSE s

\* _clean_yaml_response (lines 104-116)
clean_yaml_response(yaml_str) == strip(remove_suffix(remove_prefix(strip(yaml_str))))

\* str.split('\n') and '\n'.join
RECURSIVE split_lines(_)
split_lines(s) ==
    IF \A i \in 1..Len(s) : s[i] # newline
    THEN <<s>>
    ELSE LET k == CHOOSE i \in 1..Len(s) :
                      s[i] = newline /\ \A j \in 1..(i - 1) : s[j] # newline
         IN  <<SubSeq(s, 1, k - 1)>> \o split_lines(SubSeq(s, k + 1, Len(s)))

RECURSIVE join_lines(_)
join_lines(lines) ==
    IF lines = <<>> THEN <<>>
    ELSE IF Len(lines) = 1 THEN lines[1]
    ELSE lines[1] \o <<newline>> \o join_lines(Tail(lines))

\* line.strip().startswith('```')
fence_line(line) == text_startswith(strip(line), <<fence>>)

\* the loop of lines 124-130 from a given line on, with the value of in_yaml
RECURSIVE yaml_lines(_, _)
yaml_lines(lines, in_yaml) ==
    IF lines = <<>> THEN <<>>
    ELSE IF fence_line(Head(lines)) THEN yaml_lines(Tail(lines), ~in_yaml)
    ELSE IF in_yaml \/ ~fence_line(Head(lines))
         THEN <<Head(lines)>> \o yaml_lines(Tail(lines), in_yaml)
         ELSE yaml_lines(Tail(lines), in_yaml)

\* _fix_common_yaml_issues (lines 118-132)
fix_common_yaml_issues(yaml_str) == join_lines(yaml_lines(split_lines(yaml_str), FALSE))

\* yaml.safe_load raises yaml.YAMLError: a document holding a code fence (a backtick
\* cannot start a token) or an unclosed flow mapping does not parse
safe_load_raises(yaml_str) ==
    \E i \in 1..Len(yaml_str) : yaml_str[i] \in {fence, bad_yaml}

\* BaseAgent._format_error
format_error(message) == [status |-> "error", message |-> message, yaml |-> <<>>]

\* lines 42-48
generation_success(pipeline_yaml) ==
    [status |-> "success", message |-> "Pipeline generated successfully",
     yaml |-> pipeline_yaml]

\* a second parse whose failure is swallowed
second_parse_swallowed(pipeline_yaml, raises) == generation_success(pipeline_yaml)

\* lines 37-48: the outcome of the second parse
second_parse_result(pipeline_yaml, raises) ==
    IF raises
    THEN format_error("Generated pipeline has invalid YAML syntax")
    ELSE generation_success(pipeline_yaml)

NoResult == [status |-> "none", message |-> "none", yaml |-> <<>>]

NoGen ==
    [pc |-> "none", analysis |-> FALSE, answer |-> <<>>, cleaned |-> <<>>,
     pipeline_yaml |-> <<>>, loads |-> <<>>, fixes |-> 0, result |-> NoResult]

\* execute up to the await of the completion call (lines 24-29, 98)
GenStart ==
    /\ gen.pc = "new"
    /\ IF ~gen.analysis
       THEN gen' = [gen EXCEPT !.pc = "done",
                               !.result = format_error("Repository analysis is required")]
       ELSE gen' = [gen EXCEPT !.pc = "await"]
    /\ UNCHANGED <<suggestion_cache, sg, sg_hist, va, dl,
                   storeVars, queueVars, lifeVars, reviewVars>>

\* the completion call returns and the answer is cleaned (lines 98-102)
GenAnswer ==
    /\ gen.pc = "await"
    /\ \E answer \in Texts :
           gen' = [gen EXCEPT !.pc = "load", !.answer = answer,
                              !.cleaned = clean_yaml_response(answer),
                              !.pipeline_yaml = clean_yaml_response(answer)]
    /\ UNCHANGED <<suggestion_cache, sg, sg_hist, va, dl,
                   storeVars, queueVars, lifeVars, reviewVars>>

\* the completion call raises (lines 50-51)
GenRaises ==
    /\ gen.pc = "await"
    /\ gen' = [gen EXCEPT !.pc = "done", !.result = format_error("completion failed")]
    /\ UNCHANGED <<suggestion_cache, sg, sg_hist, va, dl,
                   storeVars, queueVars, lifeVars, reviewVars>>

\* the first yaml.safe_load (lines 32-34)
GenLoad ==
    /\ gen.pc = "load"
    /\ LET raises == safe_load_raises(gen.pipeline_yaml)
       IN  gen' = [gen EXCEPT
               !.loads = Append(@, [text |-> gen.pipeline_yaml, raises |-> raises]),
               !.pc = IF raises THEN "fix" ELSE "done",
               !.result = IF raises THEN @ ELSE generation_success(gen.pipeline_yaml)]
    /\ UNCHANGED <<suggestion_cache, sg, sg_hist, va, dl,
                   storeVars, queueVars, lifeVars, reviewVars>>

\* line 36
GenFix ==
    /\ gen.pc = "fix"
    /\ gen' = [gen EXCEPT !.pc = "reload", !.fixes = @ + 1,
                          !.pipeline_yaml = fix_common_yaml_issues(@)]
    /\ UNCHANGED <<suggestion_cache, sg, sg_hist, va, dl,
                   storeVars, queueVars, lifeVars, reviewVars>>

\* the second yaml.safe_load and the end of execute (lines 37-51)
GenReload ==
    /\ gen.pc = "reload"
    /\ LET raises == safe_load_raises(gen.pipeline_yaml)
       IN  gen' = [gen EXCEPT
               !.loads = Append(@, [text |-> gen.pipeline_yaml, raises |-> raises]),
               !.pc = "done",
               !.result = second_parse_result(gen.pipeline_yaml, raises)]
    /\ UNCHANGED <<suggestion_cache, sg, sg_hist, va, dl,
                   storeVars, queueVars, lifeVars, reviewVars>>

(***************************************************************************)
(* The validation task (ValidationAgent.execute and _validate_pipeline,    *)
(* agents/validation_agent.py lines 51-96 and 103-123).  The context holds *)
(* a pipeline text, or none, and the repository url.                       *)
(***************************************************************************)
PipelineTexts == UNION {[1..n -> Pieces] : n \in 0..MaxYaml}

NoData ==
    [present |-> FALSE, valid |-> FALSE, errors |-> <<>>, warnings |-> <<>>,
     merged_yaml |-> <<>>, has_suggestions |-> FALSE]

\* a validation that reports what a lint would report on a bad pipeline
validate_pipeline_invalid(pipeline_yaml) ==
    [present |-> TRUE, valid |-> FALSE, errors |-> <<"unknown stage">>,
     warnings |-> <<>>, merged_yaml |-> pipeline_yaml, has_suggestions |-> FALSE]

\* _validate_pipeline: the mock result, built without a call to project.ci_lint
validate_pipeline(pipeline_yaml) ==
    [present |-> TRUE, valid |-> TRUE, errors |-> <<>>, warnings |-> <<>>,
     merged_yaml |-> pipeline_yaml, has_suggestions |-> FALSE]

\* BaseAgent._format_error, for the validation task
validate_error(message) == [status |-> "error", message |-> message, data |-> NoData]

NoValidate ==
    [pc |-> "none", given |-> FALSE, pipeline_yaml |-> <<>>, lint_calls |-> 0,
     requests |-> 0, result |-> [status |-> "none", message |-> "none", data |-> NoData]]

\* execute, lines 64-74: pipeline_yaml[:100] raises on None, an empty text is refused
ValidateStart ==
    /\ va.pc = "new"
    /\ IF ~va.given
       THEN va' = [va EXCEPT !.pc = "done", !.result = validate_error("TypeError")]
       ELSE IF va.pipeline_yaml = <<>>
       THEN va' = [va EXCEPT !.pc = "done",
                             !.result = validate_error("Pipeline YAML is required")]
       ELSE va' = [va EXCEPT !.pc = "project"]
    /\ UNCHANGED <<suggestion_cache, sg, sg_hist, dl, gen,
                   storeVars, queueVars, lifeVars, reviewVars>>

\* execute, lines 76-96: the project lookup raises, or it returns and the pipeline
\* is validated, with suggestions asked for when the validation says invalid
ValidateProject(found) ==
    /\ va.pc = "project"
    /\ IF ~found
       THEN va' = [va EXCEPT !.pc = "done", !.result = validate_error("GitlabGetError")]
       ELSE LET validation_result == validate_pipeline(va.pipeline_yaml)
            IN  va' = [va EXCEPT
                    !.pc = "done",
                    !.requests = IF validation_result.valid THEN @ ELSE @ + 1,
                    !.result =
                        [status |-> "success", message |-> "Pipeline validation completed",
                         data |-> [validation_result EXCEPT
                                      !.has_suggestions = ~validation_result.valid]]]
    /\ UNCHANGED <<suggestion_cache, sg, sg_hist, dl, gen,
                   storeVars, queueVars, lifeVars, reviewVars>>

(***************************************************************************)
(* Specifications.  Each one runs one part of the program and leaves the   *)
(* rest in its initial state.                                              *)
(***************************************************************************)
StoreIdle ==
    /\ lock = [p \in Processes |-> 0]
    /\ th = [t \in Threads |-> IdleThread]
    /\ log = {}
    /\ seq_hist = <<>>

ValidateIdle == va = NoValidate
LangIdle == dl = NoDetect
GenIdle == gen = NoGen

AgentsIdle ==
    /\ SuggestIdle
    /\ ValidateIdle
    /\ LangIdle
    /\ GenIdle

\* every thread runs in the one server process
OneProcess == proc = [t \in Threads |-> 1]

\* threads of one process calling the store
StoreInit ==
    /\ file \in FileStates
    /\ StoreIdle
    /\ OneProcess
    /\ openai_api_key = TRUE
    /\ QueueIdle
    /\ env = [gitlab |-> TRUE, google |-> TRUE]
    /\ LifeIdle
    /\ ReviewIdle
    /\ AgentsIdle

StoreNext ==
    \E t \in Threads :
        \/ Call(t)
        \/ Exists(t)
        \/ AcquireRead(t)
        \/ Load(t)
        \/ Mutate(t)
        \/ AcquireWrite(t)
        \/ Dump(t)

SpecStore == StoreInit /\ [][StoreNext]_vars

\* one thread in each of several server processes sharing the backing file
ProcsInit ==
    /\ file \in FileStates \ {Corrupt}
    /\ StoreIdle
    /\ proc = [t \in Threads |-> t]
    /\ openai_api_key = TRUE
    /\ QueueIdle
    /\ env = [gitlab |-> TRUE, google |-> TRUE]
    /\ LifeIdle
    /\ ReviewIdle
    /\ AgentsIdle

SpecProcs == ProcsInit /\ [][StoreNext]_vars

\* one client calling the store, one call after the other
SpecSeq == StoreInit /\ [][SeqNext]_vars

\* callers and the consumer task of one agent instance
QueueInit ==
    /\ file = Missing
    /\ StoreIdle
    /\ OneProcess
    /\ openai_api_key \in BOOLEAN
    /\ QueueIdle
    /\ env = [gitlab |-> TRUE, google |-> TRUE]
    /\ LifeIdle
    /\ ReviewIdle
    /\ AgentsIdle

Consumer(k) ==
    \/ LoopTop(k)
    \/ WakeRate(k)
    \/ RequestReturns(k)
    \/ RequestRaises(k)
    \/ WakeNap(k)

QueueNext ==
    \/ \E c \in Callers : CallOpenai(c)
    \/ \E k \in Callers : Consumer(k)
    \/ Tick

SpecQueue == QueueInit /\ [][QueueNext]_vars

\* the event loop runs every task that is ready, time passes, and every outbound
\* request returns or raises
FairSpecQueue ==
    /\ SpecQueue
    /\ \A k \in Callers :
          /\ WF_vars(LoopTop(k))
          /\ WF_vars(WakeRate(k))
          /\ WF_vars(WakeNap(k))
          /\ WF_vars(RequestReturns(k) \/ RequestRaises(k))
    /\ WF_vars(Tick)

\* requests and their background tasks
LifeInit ==
    /\ file \in {Missing, Corrupt}
    /\ StoreIdle
    /\ OneProcess
    /\ openai_api_key \in BOOLEAN
    /\ QueueIdle
    /\ env \in [gitlab : BOOLEAN, google : BOOLEAN]
    /\ LifeIdle
    /\ ReviewIdle
    /\ AgentsIdle

LifeNext ==
    \/ \E r \in Reqs :
          \/ \E kind \in Kinds : HandlerStart(r, kind)
          \/ \E status \in {"success", "error"} : HandlerAnalysed(r, status)
          \/ HandlerReturn(r)
          \/ TaskStart(r)
          \/ \E status \in {"success", "error"} : ExecuteReturns(r, status)
          \/ \E ok \in BOOLEAN : ReviewFetch(r, ok)
          \/ ReviewDone(r)
    \/ ClockTick

SpecLife == LifeInit /\ [][LifeNext]_vars

\* the requests and their tasks, with a client polling the status endpoint
PollInit ==
    /\ file \in {Missing, Corrupt}
    /\ StoreIdle
    /\ OneProcess
    /\ openai_api_key = TRUE
    /\ QueueIdle
    /\ env = [gitlab |-> TRUE, google |-> TRUE]
    /\ LifeIdle
    /\ ReviewIdle
    /\ AgentsIdle

PollNext ==
    \/ LifeNext
    \/ \E operation_id \in PolledIds : Poll(operation_id)

SpecPoll == PollInit /\ [][PollNext]_vars

\* one code review, from the listed tree to the stored record
ReviewInit ==
    /\ file = Missing
    /\ StoreIdle
    /\ OneProcess
    /\ openai_api_key = TRUE
    /\ QueueIdle
    /\ env = [gitlab |-> TRUE, google |-> TRUE]
    /\ LifeIdle
    /\ files \in Trees
    /\ rv = InitialLocals
    /\ calls = <<>>
    /\ AgentsIdle

ReviewNext ==
    \/ ReviewList
    \/ ReviewFile
    \/ \E summary_outcome \in {"returns", "raises"} : ReviewStore(summary_outcome)

SpecReview == ReviewInit /\ [][ReviewNext]_vars

\* one client calling _get_suggestions of one agent instance, one call after the other
SuggestInit ==
    /\ file = Missing
    /\ StoreIdle
    /\ OneProcess
    /\ openai_api_key = TRUE
    /\ QueueIdle
    /\ env = [gitlab |-> TRUE, google |-> TRUE]
    /\ LifeIdle
    /\ ReviewIdle
    /\ AgentsIdle

SuggestNext ==
    \/ \E errors \in ErrorLists : SuggestStart(errors)
    \/ \E a \in Answers : SuggestAnswer(a)
    \/ SuggestRaises

SpecSuggest == SuggestInit /\ [][SuggestNext]_vars

\* one repository analysis, from the fetched tree to the detected language
LangInit ==
    /\ file = Missing
    /\ StoreIdle
    /\ OneProcess
    /\ openai_api_key = TRUE
    /\ QueueIdle
    /\ env = [gitlab |-> TRUE, google |-> TRUE]
    /\ LifeIdle
    /\ ReviewIdle
    /\ SuggestIdle
    /\ ValidateIdle
    /\ GenIdle
    /\ \E repo \in Repositories :
           dl = [NoDetect EXCEPT !.pc = "structure", !.fetchable = repo.fetchable,
                                 !.files = repo.files]

LangNext ==
    \/ AnalyzeDependencies
    \/ DetectLanguage

SpecLang == LangInit /\ [][LangNext]_vars

\* one generation task, from its context to its result
GenInit ==
    /\ file = Missing
    /\ StoreIdle
    /\ OneProcess
    /\ openai_api_key = TRUE
    /\ QueueIdle
    /\ env = [gitlab |-> TRUE, google |-> TRUE]
    /\ LifeIdle
    /\ ReviewIdle
    /\ SuggestIdle
    /\ ValidateIdle
    /\ LangIdle
    /\ \E analysis \in BOOLEAN : gen = [NoGen EXCEPT !.pc = "new", !.analysis = analysis]

GenNext ==
    \/ GenStart
    \/ GenAnswer
    \/ GenRaises
    \/ GenLoad
    \/ GenFix
    \/ GenReload

SpecGen == GenInit /\ [][GenNext]_vars

\* one validation task, from its context to its result
ValidateInit ==
    /\ file = Missing
    /\ StoreIdle
    /\ OneProcess
    /\ openai_api_key = TRUE
    /\ QueueIdle
    /\ env = [gitlab |-> TRUE, google |-> TRUE]
    /\ LifeIdle
    /\ ReviewIdle
    /\ SuggestIdle
    /\ LangIdle
    /\ GenIdle
    /\ \E given \in BOOLEAN, pipeline_yaml \in PipelineTexts :
           va = [NoValidate EXCEPT !.pc = "new", !.given = given,
                                   !.pipeline_yaml = IF given THEN pipeline_yaml ELSE <<>>]

ValidateNext ==
    \/ ValidateStart
    \/ \E found \in BOOLEAN : ValidateProject(found)

SpecValidate == ValidateInit /\ [][ValidateNext]_vars

(***************************************************************************)
(* Claims about the operation store.                                       *)
(***************************************************************************)
\* a call of the log has returned
Returned(c) == th[c.t].n > c.n \/ (th[c.t].n = c.n /\ th[c.t].pc = "idle")

\* the thread has read the mapping and not yet written it back
InSpan(t) ==
    /\ th[t].op \in {"set", "delete"}
    /\ th[t].pc \in {"loaded", "acquire_write", "dump"}

\* C1: when two set_operation calls A and B on distinct ids are the only writing
\* calls made, in any interleaving of their steps, then once both have returned
\* get_operation gives A's payload for A's id and B's payload for B's id.
C1_NoLostEntry ==
    \A A \in log, B \in log :
        ( /\ A.op = "set" /\ B.op = "set" /\ A.id # B.id
          /\ {c \in log : c.op # "get"} = {A, B}
          /\ Returned(A) /\ Returned(B) )
        => ( /\ get_operation(file, A.id) = A.data
             /\ get_operation(file, B.id) = B.data )

\* C2: while a set_operation or delete_operation is between its read of the mapping
\* and its write back, no other thread holds the store lock.
C2_LockHeldOverSpan ==
    \A t \in Threads, u \in Threads :
        (t # u /\ InSpan(t)) => lock[proc[u]] # u

\* C3: a get_operation that directly follows set_operation(id, payload) returns
\* that payload, whatever the file held before the set (missing, corrupt, a mapping).
C3_RoundTrip ==
    ( /\ Len(seq_hist) = 2
      /\ seq_hist[1].op = "set" /\ seq_hist[2].op = "get"
      /\ seq_hist[1].id = seq_hist[2].id )
    => seq_hist[2].ret = seq_hist[1].data

\* the round trip has been made over a file that could not be parsed
C3_Witness ==
    /\ Len(seq_hist) = 2
    /\ seq_hist[1].op = "set" /\ seq_hist[2].op = "get"
    /\ seq_hist[1].id = seq_hist[2].id
    /\ seq_hist[1].before = "corrupt"
    /\ seq_hist[2].ret = seq_hist[1].data

\* C25: a missing or unparseable backing file is read as the empty mapping:
\* get_operation returns absent for every id, and set_operation(id, payload) in
\* that state leaves the file holding exactly the one entry id -> payload.
C25_UnreadableIsEmpty ==
    \A i \in 1..Len(seq_hist) :
        seq_hist[i].before \in {"missing", "corrupt"} =>
            /\ seq_hist[i].op = "get" => seq_hist[i].ret = None
            /\ seq_hist[i].op = "set" /\ i = Len(seq_hist) =>
                   file = [kind |-> "json", text |-> {<<seq_hist[i].id, seq_hist[i].data>>}]

\* a get and then a set were made on a file that could not be parsed
C25_Witness ==
    /\ Len(seq_hist) = 2
    /\ seq_hist[1].op = "get" /\ seq_hist[1].before = "corrupt"
    /\ seq_hist[1].ret = None
    /\ seq_hist[2].op = "set" /\ seq_hist[2].before = "corrupt"
    /\ file.kind = "json"
    /\ Cardinality(file.text) = 1

(***************************************************************************)
(* Claims about the completion queue.                                      *)
(***************************************************************************)
\* the consumers with an outbound request in flight
Outstanding == {k \in Callers : qp[k].pc = "request"}

\* a step that sends an outbound completion request
IssueStep == \E k \in Callers : qp[k].pc # "request" /\ qp'[k].pc = "request"

\* the callers of the queue and of the trace
Range(q) == {q[i] : i \in 1..Len(q)}

\* the position of an event in the trace, 0 when it has not happened
Pos(e) == IF e \in Range(trace) THEN CHOOSE i \in 1..Len(trace) : trace[i] = e ELSE 0

\* C4: two consecutive outbound requests of one agent instance are issued at least
\* min_request_interval apart, whether the earlier one succeeded or failed.
C4_RateLimitSpacing ==
    [][IssueStep => (since_issue = -1 \/ since_issue >= min_request_interval)]_vars

\* C5: at most one outbound request is outstanding at any time and at most one
\* consumer task is ever started, however many callers submit.
C5_OneOutstanding ==
    /\ Cardinality(Outstanding) <= 1
    /\ Cardinality({k \in Callers : qp[k].pc # "none"}) <= 1

\* a request is in flight while another caller waits in the queue, both having
\* called before the consumer task ran for the first time
C5_Witness ==
    /\ Outstanding # {}
    /\ Len(request_queue) >= 1
    /\ Len(trace) >= 3
    /\ trace[1][1] = "put" /\ trace[2][1] = "put" /\ trace[3][1] = "issue"

\* C6: when the request of an item raises, that item's future alone is rejected,
\* with that error; the consumer goes on with its loop, the items queued behind
\* stay queued, and every queued item is resolved in the end.
C6_FailureIsolated ==
    /\ [][\A c \in Callers :
            (fut[c].st = "pending" /\ fut'[c].st = "exception")
            => ( /\ \E k \in Callers :
                      /\ qp'[k].pc = "nap"
                      /\ \/ /\ qp[k].pc = "request" /\ qp[k].item = c
                            /\ fut'[c].val = "APIError"
                         \/ /\ qp[k].pc = "rate_sleep" /\ qp[k].item = c
                            /\ fut'[c].val = "ValueError"
                         \/ /\ qp[k].pc = "loop" /\ Head(request_queue) = c
                            /\ fut'[c].val = "ValueError"
                 /\ \A d \in Callers \ {c} : fut'[d] = fut[d]
                 /\ Range(request_queue) \ {c} \subseteq Range(request_queue') )]_vars
    /\ \A c \in Callers : (fut[c].st = "pending") ~> (fut[c].st \in {"result", "exception"})

\* the request of one item raised and an item that was queued behind it at that
\* moment got its result
C6_Witness ==
    \E c \in Callers, d \in Callers :
        /\ fut[c] = [st |-> "exception", val |-> "APIError"]
        /\ fut[d].st = "result"
        /\ Pos(<<"put", d>>) < Pos(<<"done", c>>)
        /\ Pos(<<"done", c>>) < Pos(<<"issue", d>>)

\* how many times the future of caller c was resolved
Resolutions(c) == Cardinality({i \in 1..Len(trace) : trace[i] = <<"done", c>>})

\* C26: every item submitted through _call_openai is resolved in the end, and
\* exactly once: its future gets a result or an exception, and once it has one it
\* keeps it.
C26_ResolvedExactlyOnce ==
    /\ \A c \in Callers : (fut[c].st = "pending") ~> (Resolutions(c) = 1)
    /\ [](\A c \in Callers :
            /\ Resolutions(c) <= 1
            /\ Resolutions(c) = 1 <=> fut[c].st \in {"result", "exception"})
    /\ [][\A c \in Callers :
            fut[c].st \in {"result", "exception"} => fut'[c] = fut[c]]_vars

\* every submission is resolved, one with a result and one with an exception
C26_Witness ==
    /\ \A c \in Callers : Resolutions(c) = 1
    /\ \E c \in Callers : fut[c].st = "result"
    /\ \E c \in Callers : fut[c].st = "exception"

\* C28: the consumer serves the queue in the order of the submissions: when A was
\* enqueued before B, A's request is issued and A's future resolved before B's
\* request is issued (and before B is resolved when no request can be issued).
C28_Fifo ==
    \A a, b \in Callers :
        Pos(<<"put", a>>) > 0 /\ Pos(<<"put", a>>) < Pos(<<"put", b>>) =>
            /\ Pos(<<"issue", b>>) > 0 =>
                   /\ Pos(<<"issue", a>>) > 0
                   /\ Pos(<<"issue", a>>) < Pos(<<"done", a>>)
                   /\ Pos(<<"done", a>>) < Pos(<<"issue", b>>)
            /\ Pos(<<"done", b>>) > 0 =>
                   /\ Pos(<<"done", a>>) > 0
                   /\ Pos(<<"done", a>>) < Pos(<<"done", b>>)

\* B was submitted while A was waiting for its turn, and both requests went out
C28_Witness ==
    \E a, b \in Callers :
        /\ Pos(<<"put", a>>) > 0
        /\ Pos(<<"put", b>>) > Pos(<<"put", a>>)
        /\ Pos(<<"put", b>>) < Pos(<<"issue", a>>)
        /\ Pos(<<"issue", b>>) > Pos(<<"done", a>>)

(***************************************************************************)
(* Claims about the requests and their background tasks.                   *)
(***************************************************************************)
\* the set_operation calls made by the task of request r
WritesOf(r) == {i \in 1..Len(writes) : writes[i].r = r}

C8_NoExecuteInHandler == \A e \in executes : e.sent

\* C8 amended: the only execute call made before the acknowledgment is the repository
\* analysis that generate-pipeline awaits in its handler; every other execute call,
\* the PipelineAgent's included, starts after the handler has returned.
C8_OnlyGenerateAnalyses ==
    \A e \in executes :
        ~e.sent => (req[e.r].kind = "generate" /\ e.agent = "CodeAnalysisAgent")

\* a generate-pipeline request analysed in its handler and ran its PipelineAgent in
\* the background, and an analyze request ran its analysis in the background
C8_Witness ==
    /\ \E e \in executes : ~e.sent /\ req[e.r].kind = "generate"
    /\ \E e \in executes : e.sent /\ e.agent = "PipelineAgent"
    /\ \E e \in executes : e.sent /\ req[e.r].kind = "analyze"

\* C9, in the form a finite run decides: a background task that was started has
\* not ended without storing a record for its operation id.
C9_EndedTaskStored ==
    \A r \in Reqs : task[r] \in {"done", "raised"} => WritesOf(r) # {}

\* C10: no operation id is passed to set_operation twice, by one task or by two.
C10_WrittenOnce ==
    \A i \in 1..Len(writes), j \in 1..Len(writes) :
        i # j => writes[i].id # writes[j].id


\* the generate-pipeline request r was answered with HTTP 500 after its awaited
\* repository analysis returned status "error"
AnalysisFailed(r) ==
    /\ req[r].kind = "generate"
    /\ req[r].pc = "rejected"
    /\ \E e \in executes : e.r = r /\ e.agent = "CodeAnalysisAgent"

\* C30: when the repository analysis of a generate-pipeline request returns status
\* "error", the request is answered with HTTP 500, no background task is scheduled
\* and no store entry is ever written for the operation id minted for the request.
C30_NothingWrittenForId ==
    \A r \in Reqs :
        AnalysisFailed(r) =>
            /\ req[r].ack.status = "none"
            /\ task[r] = "none"
            /\ \A i \in 1..Len(writes) : writes[i].id # req[r].opid

\* the part that holds: the request itself schedules no task and writes nothing
RejectedWritesNothing ==
    \A r \in Reqs :
        AnalysisFailed(r) =>
            /\ req[r].ack.status = "none"
            /\ task[r] = "none"
            /\ \A i \in 1..Len(writes) : writes[i].r # r

\* the same, when no other request minted the same operation id
NothingWrittenForOwnId ==
    \A r \in Reqs :
        AnalysisFailed(r) /\ (\A s \in Reqs \ {r} : req[s].opid # req[r].opid) =>
            \A i \in 1..Len(writes) : writes[i].id # req[r].opid

\* a request was rejected and another one, of the same second, wrote under the id
WrittenForRejectedId ==
    \E r \in Reqs :
        /\ AnalysisFailed(r)
        /\ \E i \in 1..Len(writes) : writes[i].id = req[r].opid /\ writes[i].r # r

(***************************************************************************)
(* Polling the status endpoint.                                            *)
(***************************************************************************)

\* the results written so far under an id
WrittenUnder(id) == {writes[i].data : i \in {j \in 1..Len(writes) : writes[j].id = id}}

\* the last poll answered with every result written under its id
PollAnswersWritten == \A d \in WrittenUnder(poll.id) : poll.resp = d

\* C11: once a task has written the result for an id, every later poll of
\* that id returns that result, and a poll answers "Operation not found"
\* only when nothing has been written under the id yet.
C11_PollReturnsWritten ==
    [][poll' # poll =>
         /\ PollAnswersWritten'
         /\ (poll'.resp = NotFound => WrittenUnder(poll'.id) = {})]_vars

\* the statuses a stored record can carry
Terminal == {"success", "error", "completed"}

\* the records in the backing file
StoredRecords == {m[2] : m \in file.text}

C13_NoEscape ==
    /\ \A r \in Reqs : task[r] # "raised"
    /\ \A i \in 1..Len(writes) :
           req[writes[i].r].kind # "review" => writes[i].data.status \in {"success", "error"}

(***************************************************************************)
(* The store shared by separate processes.                                 *)
(***************************************************************************)

\* thread t reads, as the empty mapping, the file that thread u of another
\* process has opened for writing and not yet dumped
ReadsTruncated(t, u) ==
    /\ proc[t] # proc[u]
    /\ th[u].pc = "dump"
    /\ th[t].pc = "load" /\ th'[t].pc = "loaded"
    /\ th'[t].ops = EmptyDict

\* C14: the store can be used by separate processes on one file: a reader
\* never takes a file that a writer of another process has truncated and not
\* yet rewritten for an empty mapping, and when set_operation calls of two
\* processes on distinct ids are the only writing calls made, both entries
\* are in the file once both calls have returned.
C14_ProcessSafe ==
    /\ [][\A t \in Threads, u \in Threads : ~ReadsTruncated(t, u)]_vars
    /\ [](\A A \in log, B \in log :
            ( /\ proc[A.t] # proc[B.t]
              /\ A.op = "set" /\ B.op = "set" /\ A.id # B.id
              /\ {c \in log : c.op # "get"} = {A, B}
              /\ Returned(A) /\ Returned(B) )
            => {A.id, B.id} \subseteq DOMAIN _read_operations(file))

(***************************************************************************)
(* The completion queue without its credential.                            *)
(***************************************************************************)

\* C15: when OPENAI_API_KEY is missing, every submission through
\* _call_openai fails with ValueError("OPENAI_API_KEY is not set.") without
\* being held behind the rate-limit sleep, and no outbound request is made.
C15_FailsWithoutWaiting ==
    ~openai_api_key =>
        /\ \A k \in Callers : qp[k].pc \notin {"rate_sleep", "request"}
        /\ \A c \in Callers : ~(\E i \in 1..Len(trace) : trace[i] = <<"issue", c>>)
        /\ \A c \in Callers : fut[c].st \in {"none", "pending"}
                                 \/ fut[c] = [st |-> "exception", val |-> "ValueError"]

(***************************************************************************)
(* Missing configuration.                                                  *)
(***************************************************************************)

\* the configuration inputs the work of a task kind uses
required_config(kind) ==
    CASE kind = "deploy" -> {"gitlab", "google"}
      [] kind = "review" -> {"gitlab", "openai"}
      [] OTHER -> {"gitlab"}

\* whether the environment holds the input
config_present(name) ==
    CASE name = "gitlab" -> env.gitlab
      [] name = "google" -> env.google
      [] OTHER -> openai_api_key

IsFileCall(c) == c[1] = "file"

\* the per-file completion calls made so far, in order
FileCalls == SelectSeq(calls, IsFileCall)

\* the entry at position i of the tree is a blob outside the three prefixes
IsEligible(i) ==
    /\ files[i].type = "blob"
    /\ files[i].path[1] \notin {".git", "node_modules", "__pycache__"}

\* the positions of these entries
Eligible == {i \in 1..Len(files) : IsEligible(i)}

\* position i is one of the first five of them
InFirstFive(i) ==
    IsEligible(i) /\ Cardinality({j \in 1..(i - 1) : IsEligible(j)}) < 5

\* C17: a review makes at most 5 per-file completion calls, each for one of
\* the first 5 blob entries of the tree whose path does not start with
\* .git, node_modules or __pycache__, in the order of the tree.
C17_AtMostFiveFiles ==
    /\ Cardinality({k \in 1..Len(calls) : IsFileCall(calls[k])}) <= 5
    /\ \A k \in 1..Len(calls) :
           IsFileCall(calls[k]) =>
               \E i \in 1..Len(files) : files[i].path = calls[k][2] /\ InFirstFive(i)
    /\ \A k \in 1..Len(calls), l \in 1..Len(calls) :
           (k < l /\ IsFileCall(calls[k]) /\ IsFileCall(calls[l]))
               => calls[k][2][2] < calls[l][2][2]

\* a review of a tree with six eligible blobs has ended after five per-file
\* calls
C17_Witness ==
    /\ rv.pc = "done"
    /\ Len(FileCalls) = 5
    /\ Cardinality(Eligible) = 6

\* a per-file completion call has raised
CallRaised == rv.openai_error_message = "APIError"

\* the record the review has stored
StoredReview == get_operation(file, review_id)

\* C18: when a per-file completion call raises, no further completion call
\* is made by that review, neither for the remaining files nor for the
\* summary, and the stored result has status "completed", score 50, the
\* three fixed recommendations and the message of the mock fallback.
C18_RaiseStopsCalls ==
    /\ [][CallRaised => calls' = calls]_vars
    /\ []((CallRaised /\ rv.pc = "done") =>
            /\ StoredReview.status = "completed"
            /\ StoredReview.score = <<50, 1>>
            /\ StoredReview.recommendations =
                   <<"Add more tests to your codebase.",
                     "Follow best practices for code structure.",
                     "Ensure proper error handling.">>
            /\ StoredReview.message =
                   "Code review completed with mock fallback due to OpenAI error.")

\* the third per-file call raised after two files were reviewed, three files
\* were left unvisited, and the record is stored
C18_Witness ==
    /\ CallRaised
    /\ rv.pc = "done"
    /\ rv.files_reviewed = 2
    /\ Len(calls) = 3
    /\ Cardinality(Eligible) = 6
    /\ StoredReview.status = "completed"

\* the step that stores the record of a review whose per-file call raised
StoresAfterRaise == CallRaised /\ rv.pc = "after_loop" /\ rv'.pc = "done"

\* C19 as stated: when the k-th per-file completion call raises, the
\* findings accumulated from files 1..k-1 are in the stored result.
C19_EarlierFindingsRetained ==
    [][StoresAfterRaise =>
         \A f \in Range(rv.findings) : f \in Range(StoredReview'.findings)]_vars

\* C19, amended: when the k-th per-file completion call raises, the findings
\* accumulated from files 1..k-1 are dropped: the findings of the stored
\* result are the single mock_review finding.
C19_EarlierFindingsReplaced ==
    [][StoresAfterRaise =>
         StoredReview'.findings =
             <<[type |-> "mock_review", severity |-> "info", location |-> <<"N/A", 0>>]>>]_vars

\* the third per-file call raised after two files had given a finding each,
\* and the stored findings are the mock one alone
C19_Witness ==
    /\ CallRaised
    /\ rv.pc = "done"
    /\ rv.files_reviewed = 2
    /\ rv.total_score = 12
    /\ Len(StoredReview.findings) = 1
    /\ StoredReview.findings[1].type = "mock_review"

\* a turn of the file loop
FileTurn == rv.pc = "loop" /\ rv'.pc \in {"loop", "after_loop"} /\ rv' # rv

\* the path of the n-th blob outside the three prefixes
EligiblePath(n) ==
    files[CHOOSE p \in Eligible : Cardinality({j \in Eligible : j < p}) = n - 1].path

\* C20: a failure local to one file (the completion's answer is not valid
\* JSON, or fetching the file's content raises) appends exactly one finding
\* for that file, of severity "low" for malformed JSON and "medium" for the
\* failed fetch, leaves files_reviewed and total_score unchanged, and the
\* loop goes on with the next selected file.
C20_LocalFailureIsOneFinding ==
    [][(FileTurn /\ rv'.last \in {"bad_json", "fetch_raises"}) =>
         /\ rv'.findings =
                Append(rv.findings,
                       [type |-> "error",
                        severity |-> IF rv'.last = "bad_json" THEN "low" ELSE "medium",
                        location |-> EligiblePath(rv.i)])
         /\ rv'.files_reviewed = rv.files_reviewed
         /\ rv'.total_score = rv.total_score
         /\ rv'.recommendations = rv.recommendations
         /\ rv'.pc = "loop" /\ rv'.i = rv.i + 1
         /\ ~rv'.openai_failed]_vars

\* after one reviewed file, a failed fetch and a malformed answer, the loop
\* stands at the fourth file with one finding for each of the two failures
C20_Witness ==
    /\ rv.pc = "loop" /\ rv.i = 4 /\ rv.i <= Len(slice(rv.code_files))
    /\ rv.last = "bad_json"
    /\ rv.files_reviewed = 1 /\ rv.total_score = 10
    /\ Len(rv.findings) = 2
    /\ rv.findings[1].severity = "medium" /\ rv.findings[2].severity = "low"

\* the stored record is the mock fallback
StoredFallback ==
    /\ StoredReview.findings = <<mock_finding>>
    /\ StoredReview.recommendations = mock_recommendations
    /\ StoredReview.score = <<50, 1>>

AnnouncesFallback ==
    StoredReview.message = "Code review completed with mock fallback due to OpenAI error."

\* what the claim says of a stored review
FallbackAsClaimed ==
    /\ StoredFallback <=> (CallRaised \/ rv.files_reviewed = 0)
    /\ ~StoredFallback => StoredReview.score = true_div(rv.total_score, rv.files_reviewed)
    /\ AnnouncesFallback <=> CallRaised

\* C29: the stored result of a review is the mock fallback exactly when a
\* completion call raised or no file was successfully parsed; otherwise the score
\* is total_score / files_reviewed; the message announces the fallback only when a
\* completion call raised.
C29_FallbackExactlyWhen == rv.pc = "done" => FallbackAsClaimed

\* an answer that is JSON of the wrong shape ended the loop
WrongShape == rv.openai_error_message = "TypeError"

\* the same, for the reviews in which every parsed answer had the expected shape
FallbackWithoutWrongShape == rv.pc = "done" /\ ~WrongShape => FallbackAsClaimed

\* a file was reviewed, no completion call raised, and the fallback was stored
FallbackAfterWrongShape ==
    /\ rv.pc = "done"
    /\ rv.files_reviewed > 0
    /\ ~CallRaised
    /\ StoredFallback
    /\ AnnouncesFallback

(***************************************************************************)
(* Claims about the agents.                                                *)
(***************************************************************************)
\* the set of the strings of a list
Strings(errors) == {errors[i] : i \in 1..Len(errors)}

\* C21: once a _get_suggestions call has obtained suggestions from the completion
\* service, every later call on the instance with the same set of error strings, in
\* any order and with any repetition, returns those suggestions and asks nothing.
C21_SameSetIsCached ==
    \A i, j \in 1..Len(sg_hist) :
        /\ i < j
        /\ sg_hist[i].obtained
        /\ Strings(sg_hist[i].errors) = Strings(sg_hist[j].errors)
        => /\ ~sg_hist[j].asked
           /\ sg_hist[j].ret = sg_hist[i].ret

\* what the cache does give: a later call with the same strings, each as many times,
\* in any order, is answered from the cache
SameKeyIsCached ==
    \A i, j \in 1..Len(sg_hist) :
        /\ i < j
        /\ sg_hist[i].obtained
        /\ cache_key(sg_hist[i].errors) = cache_key(sg_hist[j].errors)
        => /\ ~sg_hist[j].asked
           /\ sg_hist[j].ret = sg_hist[i].ret

\* a call with the strings in another order was answered from the cache
PermutationCached ==
    \E i, j \in 1..Len(sg_hist) :
        /\ i < j
        /\ sg_hist[i].obtained
        /\ sg_hist[i].errors # sg_hist[j].errors
        /\ cache_key(sg_hist[i].errors) = cache_key(sg_hist[j].errors)
        /\ ~sg_hist[j].asked

\* the ecosystems in their fixed order, and those with a manifest in the repository
Ecosystems == <<"python", "node", "java", "ruby", "php">>
ManifestsOf(eco) ==
    CASE eco = "python" -> {"requirements.txt", "setup.py", "Pipfile"}
      [] eco = "node" -> {"package.json"}
      [] eco = "java" -> {"pom.xml", "build.gradle"}
      [] eco = "ruby" -> {"Gemfile"}
      [] OTHER -> {"composer.json"}
HasManifest(n) == ManifestsOf(Ecosystems[n]) \cap dl.fetchable # {}

\* the extension counts of the tree
Extensions == {ext_of(dl.files[i]) : i \in 1..Len(dl.files)}
CountOf(ext) == Cardinality({i \in 1..Len(dl.files) : ext_of(dl.files[i]) = ext})
StrictlyMost(ext) == \A other \in Extensions \ {ext} : CountOf(other) < CountOf(ext)
LanguageOf(ext) ==
    CASE ext = "py" -> "python"
      [] ext = "js" -> "javascript"
      [] ext = "ts" -> "typescript"
      [] ext = "java" -> "java"
      [] ext = "rb" -> "ruby"
      [] ext = "php" -> "php"
      [] ext = "go" -> "go"
      [] OTHER -> "unknown"

\* C22: with a manifest found, the detected language is the ecosystem of the first
\* one in the order python, node, java, ruby, php, whatever the extension counts;
\* with none, it is the language of the strictly most frequent extension, "unknown"
\* when that extension is unmapped or the tree is empty.
C22_DetectedLanguage ==
    dl.pc = "analysis" =>
        /\ \A n \in 1..Len(Ecosystems) :
               HasManifest(n) /\ (\A k \in 1..(n - 1) : ~HasManifest(k))
               => dl.language = Ecosystems[n]
        /\ (\A n \in 1..Len(Ecosystems) : ~HasManifest(n)) =>
               /\ dl.files = <<>> => dl.language = "unknown"
               /\ \A ext \in Extensions :
                      StrictlyMost(ext) => dl.language = LanguageOf(ext)

\* {js: 3, py: 1} and no manifest gave "javascript"
C22_Witness ==
    /\ dl.pc = "analysis"
    /\ dl.fetchable = {}
    /\ CountOf("js") = 3
    /\ CountOf("py") = 1
    /\ dl.language = "javascript"

\* a node manifest and a php manifest, in a tree of Python files, gave "node"
ManifestBeatsExtensions ==
    /\ dl.pc = "analysis"
    /\ dl.fetchable = {"package.json", "composer.json"}
    /\ CountOf("py") = MaxFiles
    /\ dl.language = "node"

\* C23: when the generated text fails to parse, the fix-up pass runs exactly once
\* and the text is parsed exactly once more; a second failure gives status "error"
\* with the invalid-YAML-syntax message, and a parse that succeeds gives status
\* "success" carrying the text that parsed.
C23_OneFixUpOneReparse ==
    gen.pc = "done" /\ gen.loads # <<>> =>
        IF ~gen.loads[1].raises
        THEN /\ Len(gen.loads) = 1
             /\ gen.fixes = 0
             /\ gen.result.status = "success"
             /\ gen.result.yaml = gen.loads[1].text
        ELSE /\ Len(gen.loads) = 2
             /\ gen.fixes = 1
             /\ IF gen.loads[2].raises
                THEN /\ gen.result.status = "error"
                     /\ gen.result.message = "Generated pipeline has invalid YAML syntax"
                ELSE /\ gen.result.status = "success"
                     /\ gen.result.yaml = gen.loads[2].text

\* a text that failed to parse, was fixed and then parsed
C23_Witness ==
    /\ gen.pc = "done"
    /\ Len(gen.loads) = 2
    /\ gen.loads[1].raises
    /\ ~gen.loads[2].raises
    /\ gen.loads[2].text # gen.loads[1].text
    /\ gen.result.status = "success"

\* a text that failed both parses
SecondParseFailed ==
    /\ gen.pc = "done"
    /\ Len(gen.loads) = 2
    /\ gen.loads[2].raises
    /\ gen.result.status = "error"

\* the answer without its surrounding whitespace, and its opening fence: ``` or
\* ```yaml on a line of its own
Stripped == strip(gen.answer)
OpeningLength ==
    IF Len(Stripped) >= 2 /\ Stripped[1] = fence /\ Stripped[2] = yaml_word THEN 2 ELSE 1
NoFence(s) == \A i \in 1..Len(s) : s[i] # fence

\* between the opening line and the closing fence
Body == SubSeq(Stripped, OpeningLength + 1, Len(Stripped) - 1)

\* an opening fence line, a pipeline text, and a closing fence on the last line
Wrapped ==
    /\ Len(Stripped) >= OpeningLength + 2
    /\ Stripped[1] = fence
    /\ Stripped[OpeningLength + 1] = newline
    /\ Stripped[Len(Stripped)] = fence
    /\ \E k \in (OpeningLength + 1)..(Len(Stripped) - 1) :
           /\ Stripped[k] = newline
           /\ \A j \in (k + 1)..(Len(Stripped) - 1) : Stripped[j] = space
    /\ NoFence(Body)

\* C24: a pipeline text wrapped in code-fence delimiters comes back with both
\* delimiters removed and no fence left, and a text without fences comes back
\* unchanged apart from the surrounding whitespace.
C24_FencesRemoved ==
    gen.pc \in {"load", "fix", "reload"} \/ gen.loads # <<>> =>
        /\ Wrapped => gen.cleaned = strip(Body) /\ NoFence(gen.cleaned)
        /\ NoFence(gen.answer) => gen.cleaned = strip(gen.answer)

\* ```yaml, a pipeline and ``` came back as the pipeline alone
C24_Witness ==
    /\ gen.loads # <<>>
    /\ Wrapped
    /\ OpeningLength = 2
    /\ gen.cleaned = <<good_yaml>>

\* the canned result of the validation for the text of the context
CannedSuccess ==
    /\ va.result.status = "success"
    /\ va.result.data.present
    /\ va.result.data.valid
    /\ va.result.data.errors = <<>>
    /\ va.result.data.warnings = <<>>
    /\ va.result.data.merged_yaml = va.pipeline_yaml

NoCollaborator ==
    /\ va.lint_calls = 0
    /\ va.requests = 0
    /\ ~va.result.data.has_suggestions

====
